---- MODULE Spec2Model ----
(***************************************************************************)
(* A model of licenses/getspdx.go: the conversion of an SPDX license       *)
(* template into a license regular expression (templateToLRE, wrap,        *)
(* indentNL, findAttr, words and the final normalization).                 *)
(*                                                                         *)
(* A Go string is a sequence of one-character strings.  Go indices are     *)
(* 0-based and are kept 0-based in the variables (i, start, optStart);     *)
(* Slice(s, a, b) is the Go slice s[a:b].                                  *)
(***************************************************************************)
EXTENDS Integers, Sequences, FiniteSets, TLC

\* const Target = 80 (wrap)
Target == 80

\* the preamble check looks at a marker found before this offset
CutLimit == 100

\* the wildcard floor of a variable that is not a bullet
MinWords == 5

SP == " "
TAB == "\t"
NL == "\n"

\* the characters wrap and indentNL treat as blank
Blank == {SP, TAB}

\* the characters of the class [\d\w] of wordRE
WordChars ==
    {"0", "1", "2", "3", "4", "5", "6", "7", "8", "9", "_",
     "a", "b", "c", "d", "e", "f", "g", "h", "i", "j", "k", "l", "m",
     "n", "o", "p", "q", "r", "s", "t", "u", "v", "w", "x", "y", "z",
     "A", "B", "C", "D", "E", "F", "G", "H", "I", "J", "K", "L", "M",
     "N", "O", "P", "Q", "R", "S", "T", "U", "V", "W", "X", "Y", "Z"}

\* the characters of the class [.," \t] of blankRE
BlankLineChars == {".", ",", "\"", SP, TAB}

\* the characters bytes.TrimSpace removes (of those a template here can hold)
SpaceChars == {SP, TAB, NL}

------------------------------------------------------------------------------
\* Strings

Rep(c, n) == [k \in 1..n |-> c]

\* s[a:b]
Slice(s, a, b) == SubSeq(s, a + 1, b)

\* s[a:]
From(s, a) == SubSeq(s, a + 1, Len(s))

\* strings.HasPrefix(s[i:], p)
HasPrefixAt(s, i, p) == i + Len(p) <= Len(s) /\ SubSeq(s, i + 1, i + Len(p)) = p

HasPrefix(s, p) == HasPrefixAt(s, 0, p)

HasSuffix(s, p) == Len(p) <= Len(s) /\ SubSeq(s, Len(s) - Len(p) + 1, Len(s)) = p

\* strings.Index(s, p): the first offset at which p occurs in s, or -1
Index(s, p) ==
    LET hits == {k \in 0..(Len(s) - Len(p)) : HasPrefixAt(s, k, p)}
    IN  IF hits = {} THEN -1 ELSE CHOOSE k \in hits : \A m \in hits : k <= m

\* bytes.IndexByte(s, c) >= 0
Contains(s, c) == \E k \in 1..Len(s) : s[k] = c

\* the first offset from k on at which s ends or holds a character not in cs:
\* for k < len(s) && s[k] in cs { k++ }
Span(s, k, cs) ==
    CHOOSE e \in k..Len(s) :
        /\ e = Len(s) \/ s[e + 1] \notin cs
        /\ \A m \in (k + 1)..e : s[m] \in cs

\* fmt's %d of a non-negative integer
RECURSIVE Itoa(_)
Itoa(n) ==
    LET digit == <<"0", "1", "2", "3", "4", "5", "6", "7", "8", "9">>[(n % 10) + 1]
    IN  IF n < 10 THEN <<digit>> ELSE Itoa(n \div 10) \o <<digit>>

\* bytes.TrimSpace
TrimSpace(s) ==
    LET keep == {k \in 1..Len(s) : s[k] \notin SpaceChars}
    IN  IF keep = {} THEN <<>>
        ELSE SubSeq(s, CHOOSE k \in keep : \A m \in keep : k <= m,
                       CHOOSE k \in keep : \A m \in keep : k >= m)

------------------------------------------------------------------------------
\* words, wordCount

\* wordRE.FindAllString(s, -1): the runs of word characters, in their order
words(s) ==
    LET isStart(k) == s[k] \in WordChars /\ (k = 1 \/ s[k - 1] \notin WordChars)
        starts == SelectSeq([k \in 1..Len(s) |-> k], isStart)
    IN  [n \in 1..Len(starts) |->
            Slice(s, starts[n] - 1, Span(s, starts[n] - 1, WordChars))]

wordCount(s) == Len(words(s))

------------------------------------------------------------------------------
\* findAttr

Quote == <<"\"">>
EqQuote == <<"=", "\"">>

findAttr(tag, name) ==
    LET i == Index(tag, name \o EqQuote)
    IN  IF i < 0 THEN <<>>
        ELSE LET rest == From(tag, i + Len(name) + 2)
                 j == Index(rest, Quote)
             IN  IF j < 0 THEN <<>> ELSE Slice(rest, 0, j)

------------------------------------------------------------------------------
\* wrap, indentNL

\* the offset at which the last line of all starts
LineStart(all) ==
    LET nls == {k \in 1..Len(all) : all[k] = NL}
    IN  IF nls = {} THEN 0 ELSE CHOOSE k \in nls : \A m \in nls : k >= m

\* strings.SplitAfter(text, "\n")
RECURSIVE SplitAfter(_)
SplitAfter(text) ==
    LET k == Index(text, <<NL>>)
    IN  IF k < 0 THEN <<text>>
        ELSE <<Slice(text, 0, k + 1)>> \o SplitAfter(From(text, k + 1))

\* for j < len(line) && (line[j] == ' ' || line[j] == '\t') { j++ }
SkipBlank(line, j) == Span(line, j, Blank)

\* for j >= 0 && line[j] != ' ' && line[j] != '\t' { j-- }, from a j < len(line)
BackBreak(line, j) ==
    LET breaks == {m \in 0..j : line[m + 1] \in Blank}
    IN  IF j < 0 THEN j
        ELSE IF breaks = {} THEN -1
        ELSE CHOOSE m \in breaks : \A n \in breaks : m >= n

\* for j < len(line) && line[j] != ' ' && line[j] != '\t' { j++ }, from a j >= 0
FwdBreak(line, j) ==
    CHOOSE e \in j..Len(line) :
        /\ e = Len(line) \/ line[e + 1] \in Blank
        /\ \A m \in (j + 1)..e : line[m] \notin Blank

\* The wrapping loop of one line: out is the buffer, oob says that the loop read
\* line[j] at a j outside 0..len(line)-1 (a run-time panic), shrink that every
\* iteration left a shorter line than it found.
RECURSIVE WrapLoop(_, _, _, _)
WrapLoop(out, indent, line, shrink) ==
    LET budget == Target - Len(indent)
        back == BackBreak(line, budget)
        j == IF back >= 0 THEN back ELSE FwdBreak(line, budget)
        next == From(line, SkipBlank(line, j))
    IN  IF Len(line) <= budget
        THEN [buf |-> out \o indent \o line, oob |-> FALSE, shrink |-> shrink]
        ELSE IF back < 0 /\ budget < 0
        THEN \* j = Target - len(indent) is negative and below len(line): line[j] is read
             [buf |-> out, oob |-> TRUE, shrink |-> shrink]
        ELSE IF back < 0 /\ j = Len(line)
        THEN [buf |-> out \o indent \o line, oob |-> FALSE, shrink |-> shrink]
        ELSE WrapLoop(out \o indent \o Slice(line, 0, j) \o <<NL>>, indent, next,
                      shrink /\ Len(next) < Len(line))

WrapLine(out, line) ==
    LET i == SkipBlank(line, 0)
    IN  WrapLoop(out, Slice(line, 0, i), From(line, i), TRUE)

RECURSIVE WrapLines(_, _)
WrapLines(acc, lines) ==
    IF lines = <<>> \/ acc.oob THEN acc
    ELSE LET r == WrapLine(acc.buf, Head(lines))
         IN  WrapLines([r EXCEPT !.shrink = acc.shrink /\ r.shrink], Tail(lines))

\* wrap(buf, text): the new buffer, or oob
wrap(buf, text) ==
    LET i == LineStart(buf)
        lines == SplitAfter(text)
        merged == [lines EXCEPT ![1] = From(buf, i) \o lines[1]]
    IN  WrapLines([buf |-> Slice(buf, 0, i), oob |-> FALSE, shrink |-> TRUE], merged)

indentNL(buf) ==
    LET i == LineStart(buf)
        j == SkipBlank(buf, i)
    IN  buf \o <<NL>> \o Slice(buf, i, j)

------------------------------------------------------------------------------
\* The normalization at the end of templateToLRE

\* s[k] (1-based) lies in a run of blanks that ends its line or the text: what
\* trailingSpaceRE, (?m)[ \t]+$, matches
TrailBlank(s, k) ==
    /\ s[k] \in Blank
    /\ \E e \in k..Len(s) :
          /\ e = Len(s) \/ s[e + 1] = NL
          /\ \A m \in k..e : s[m] \in Blank

\* trailingSpaceRE.ReplaceAll(s, nil)
trailingSpaceRE(s) ==
    LET at == [k \in 1..Len(s) |-> <<k, s[k]>>]
        stays(p) == ~TrailBlank(s, p[1])
        left == SelectSeq(at, stays)
    IN  [k \in 1..Len(left) |-> left[k][2]]

\* a line [.," \t]*\n: one group of blankRE
IsGroup(line) ==
    /\ Len(line) > 0
    /\ line[Len(line)] = NL
    /\ \A k \in 1..(Len(line) - 1) : line[k] \in BlankLineChars

\* the number of groups in a row from lines[j] on
GroupRun(lines, j) ==
    CHOOSE n \in 0..(Len(lines) - j + 1) :
        /\ \A m \in j..(j + n - 1) : IsGroup(lines[m])
        /\ j + n > Len(lines) \/ ~IsGroup(lines[j + n])

\* blankRE.ReplaceAll on the lines from lines[j] on, blankRE = \n([.," \t]*\n){2,}:
\* a match starts at the newline that ends a line and takes every group that
\* follows it, two at least; the matches are taken leftmost first
RECURSIVE BlankFrom(_, _)
BlankFrom(lines, j) ==
    IF j > Len(lines) THEN <<>>
    ELSE LET line == lines[j]
             n == GroupRun(lines, j + 1)
         IN  IF Len(line) > 0 /\ line[Len(line)] = NL /\ n >= 2
             THEN line \o <<NL>> \o BlankFrom(lines, j + n + 1)
             ELSE line \o BlankFrom(lines, j + 1)

blankRE(s) == BlankFrom(SplitAfter(s), 1)

\* for len(data) > 0 && data[0] == '\n' { data = data[1:] }
TrimLeadingNL(s) == From(s, Span(s, 0, {NL}))

\* if len(data) > 0 && data[len(data)-1] != '\n' { data = append(data, '\n') }
EndNL(s) == IF Len(s) > 0 /\ s[Len(s)] # NL THEN s \o <<NL>> ELSE s

\* the marker the preamble check searches for
CutMarker ==
    <<"/", "/", "*", "*", "C", "o", "p", "y", "r", "i", "g", "h", "t", "*", "*", "/", "/">>

OpenOp == <<"(", "(">>
CloseOp == <<")", ")", "?", "?">>

\* The preamble check: the text the warning quotes, or <<>> when there is no
\* warning.  It changes nothing of data.
CutWarning(data) ==
    LET i == Index(data, CutMarker)
        cut == TrimSpace(Slice(data, 0, i))
    IN  IF i >= 0 /\ i < CutLimit
        THEN IF HasPrefix(cut, OpenOp) /\ HasSuffix(cut, CloseOp) THEN <<>> ELSE cut
        ELSE <<>>

\* data after trailingSpaceRE and blankRE
Collapsed(buf) == blankRE(trailingSpaceRE(buf))

\* lines 384-409: the returned document and the warning written to stderr
Normalize(buf) ==
    LET data == Collapsed(buf)
    IN  [out |-> EndNL(TrimLeadingNL(data)), warning |-> CutWarning(data)]

------------------------------------------------------------------------------
\* The tags and operators of templateToLRE

StructTokens ==
    {<<"(", "(">>, <<"|", "|">>, <<")", ")">>, <<"/", "/">>, <<"?", "?">>, <<"_", "_">>}

TagOpen == <<"<", "<">>
TagTriple == <<"<", "<", "<">>
TagClose == <<">", ">">>
TagBegin ==
    <<"<", "<", "b", "e", "g", "i", "n", "O", "p", "t", "i", "o", "n", "a", "l", ">", ">">>
TagEnd == <<"<", "<", "e", "n", "d", "O", "p", "t", "i", "o", "n", "a", "l", ">", ">">>
VarPrefix == <<"<", "<", "v", "a", "r", ";">>

AttrName == <<"n", "a", "m", "e">>
AttrOriginal == <<"o", "r", "i", "g", "i", "n", "a", "l">>
NameWord == <<"n", "a", "m", "e">>
Copyright == <<"c", "o", "p", "y", "r", "i", "g", "h", "t">>
Bullet == <<"b", "u", "l", "l", "e", "t">>
PluralS == <<"s">>

\* what the copyright variable writes
CopyrightLine ==
    <<"/", "/", "*", "*", " ", "C", "o", "p", "y", "r", "i", "g", "h", "t", " ",
      "*", "*", "/", "/", "\n">>

CommentOpen == <<"/", "/", "*", "*", " ">>
CommentClose == <<" ", "*", "*", "/", "/">>
WildOp == <<"_", "_">>

\* case strings.HasPrefix(t[i:], "(("), ... "__"
IsStruct(s, k) == \E tok \in StructTokens : HasPrefixAt(s, k, tok)

\* case strings.HasPrefix(t[i:], "<<") && !strings.HasPrefix(t[i:], "<<<")
IsTag(s, k) == ~IsStruct(s, k) /\ HasPrefixAt(s, k, TagOpen) /\ ~HasPrefixAt(s, k, TagTriple)

\* a scan that steps over the two characters of the token, not over the run
RunEndToken(s, k, c) == k + 2

\* c := t[i]; for i < len(t) && t[i] == c { i++ }
RunEnd(s, k, c) == Span(s, k, {c})

\* for i < len(t) && t[i] == ' ' { i++ }
SkipSpaces(s, k) == Span(s, k, {SP})

\* a test that takes any single word for the plural s
DiscardOneWord(w) == Len(w) <= 1

\* if len(w) == 0 || len(w) == 1 && w[0] == "s"
Discard(w) == Len(w) = 0 \/ (Len(w) = 1 /\ w[1] = PluralS)

\* a count without the floor of 5
VarCountNoFloor(name, original) ==
    IF wordCount(original) < 1 THEN 1 ELSE wordCount(original)

\* the n of the wildcard of a variable
VarCount(name, original) ==
    LET n == IF wordCount(original) < 1 THEN 1 ELSE wordCount(original)
    IN  IF name # Bullet /\ n < MinWords THEN MinWords ELSE n

\* case strings.HasPrefix(tag, `<<var;`): the buffer after the handler, b being
\* the buffer it finds
VarWrite(b, name, original) ==
    LET b0 == indentNL(b)
        n == IF wordCount(original) < 1 THEN 1 ELSE wordCount(original)
        noted == IF original # <<>>
                 THEN indentNL(b0 \o CommentOpen \o original \o CommentClose)
                 ELSE b0
    IN  IF name = Copyright THEN indentNL(b0 \o CopyrightLine)
        ELSE IF name = Bullet /\ n < MinWords
        THEN IF wordCount(original) > 0
             THEN indentNL(b0 \o OpenOp \o <<SP>> \o original \o <<SP>> \o CloseOp)
             ELSE b0 \o original \o <<SP>>
        ELSE indentNL(noted \o WildOp \o Itoa(VarCount(name, original)) \o WildOp)

------------------------------------------------------------------------------
\* The templates the scan is run on

MaxPieces == 2

RECURSIVE Times(_, _)
Times(s, n) == IF n = 0 THEN <<>> ELSE s \o Times(s, n - 1)

VarTag(name, original) ==
    VarPrefix \o AttrName \o EqQuote \o name \o <<"\"", ";">>
        \o AttrOriginal \o EqQuote \o original \o Quote \o TagClose

VarX(original) == VarTag(<<"x">>, original)

\* the short pieces templates are put together from
Pieces ==
    {<<"a", " ">>, <<"s">>, <<".">>, <<"(">>, <<"\n">>, <<" ", " ">>,
     <<"?", "?">>, <<"<", "<", "<">>,
     TagBegin, TagEnd,
     VarX(<<"W", "o", "r", "l", "d">>),
     VarX(<<>>),
     VarX(<<"a", " ", "b", " ", "c", " ", "d", " ", "e", " ", "f">>),
     VarX(Times(<<"w", " ">>, 11)),
     VarTag(Bullet, <<"1", ".">>),
     VarTag(Bullet, <<"*">>),
     VarTag(Bullet, <<"(", "(", "a">>),
     VarTag(Bullet, Times(<<"b", " ">>, 5)),
     VarTag(Copyright, <<"c">>),
     VarTag(<<"l">>, NameWord),
     <<"<", "<", "x", ">", ">">>,
     <<"<", "<", "v">>}

RECURSIVE PieceSeqs(_)
PieceSeqs(n) ==
    IF n = 0 THEN {<<>>}
    ELSE PieceSeqs(n - 1) \cup {s \o p : s \in PieceSeqs(n - 1), p \in Pieces}

MaxLiteral == 4

LiteralChars == {"a", SP, NL, "?", "("}

\* templates of literal text alone
RECURSIVE Literals(_)
Literals(n) ==
    IF n = 0 THEN {<<>>}
    ELSE Literals(n - 1) \cup {s \o <<c>> : s \in Literals(n - 1), c \in LiteralChars}

\* what an optional block may hold, before it, in it and after it
Contents == {<<>>, <<"s">>, <<"a">>, <<".">>, <<"s", " ", "s">>}

\* two optional blocks, one in the other
Nested ==
    {c0 \o TagBegin \o c1 \o TagBegin \o c2 \o TagEnd \o c3 \o TagEnd \o c4 :
        c0 \in Contents, c1 \in Contents, c2 \in Contents, c3 \in Contents,
        c4 \in {<<>>, <<"s">>}}

\* one optional block and nothing else
Solo == {TagBegin \o c \o TagEnd : c \in Contents}

\* one optional block around one piece
Blocked == {c \o TagBegin \o p \o TagEnd : c \in {<<>>, <<"a", " ">>}, p \in Pieces}

LongText == Times(<<"a", "a", "a", "a", " ">>, 20)
LongDots == Times(<<".", " ">>, 45)
LongToken == Rep("a", Target + 10)

\* templates with lines longer than Target
Long ==
    {LongText,
     Times(<<"a", "a", "a", "a", " ">>, 17) \o <<"?", "?", "?">> \o Times(<<" ", "b", "b">>, 4),
     <<" ", " ">> \o LongText \o <<"\n", "\t">> \o LongText,
     LongToken,
     <<"b", " ">> \o LongToken \o <<" ", "c">>,
     VarX(Times(<<"w", "w", "w", "w", " ">>, 18)),
     VarTag(Bullet, Rep("b", 40) \o <<SP>> \o Rep("c", 40)),
     Rep(SP, Target) \o <<"a", " ", "b">>,
     Rep(SP, Target + 1) \o <<"a">>,
     Rep(SP, Target + 1) \o TagBegin,
     <<"x", " ", "y", " ">> \o TagBegin \o LongDots \o TagEnd \o <<"z">>,
     <<"p", " ">> \o TagBegin \o LongText \o TagBegin \o <<"s">> \o TagEnd
         \o LongText \o TagEnd,
     TagBegin \o LongDots \o TagBegin \o LongDots \o TagEnd \o LongDots \o TagEnd}

\* templates about the copyright marker and the blank-line collapse
Marked ==
    {<<"P", "r", "e", " ">> \o VarTag(Copyright, <<"c">>) \o <<" ", "x">>,
     TagBegin \o <<"P", "r", "e">> \o TagEnd \o VarTag(Copyright, <<"c">>),
     <<"P", "r", "e", " ">> \o VarX(CutMarker),
     <<"a", "\n", ".", "\n", ".", "\n", "b">>,
     <<"(">> \o TagBegin \o TagEnd \o <<"(">>}

Templates == PieceSeqs(MaxPieces) \cup Literals(MaxLiteral) \cup Solo \cup Blocked
        \cup Nested \cup Long \cup Marked

------------------------------------------------------------------------------
\* templateToLRE as a state machine: one step per iteration of its scan loop,
\* and a last step for what follows the loop

VARIABLES
    t,          \* the template
    i,          \* the scan's cursor
    start,      \* the start of the literal text not yet written
    buf,        \* the buffer
    optStart,   \* the offsets of the open optional blocks
    pc,         \* "scan", "done" (returned) or "panic"
    out,        \* the returned document
    warning,    \* the text the warning quotes, <<>> when there is none
    why,        \* the panic
    snaps,      \* history: for each open block, the buffer when its offset was
                \* recorded
    last,       \* history: what the last step did
    tagged,     \* history: the scan entered the tag case
    shrunk      \* history: every iteration of wrap's loop shortened its line

vars == <<t, i, start, buf, optStart, pc, out, warning, why, snaps, last, tagged,
          shrunk>>

Nothing ==
    [op |-> "none", name |-> <<>>, original |-> <<>>, discarded |-> FALSE,
     snap |-> <<>>, written |-> <<>>]

Init ==
    /\ t \in Templates
    /\ i = 0
    /\ start = 0
    /\ buf = <<>>
    /\ optStart = <<>>
    /\ pc = "scan"
    /\ out = <<>>
    /\ warning = <<>>
    /\ why = ""
    /\ snaps = <<>>
    /\ last = Nothing
    /\ tagged = FALSE
    /\ shrunk = TRUE

\* the wrap call the step at i starts with
Pending ==
    IF i >= Len(t) THEN wrap(buf, From(t, start))
    ELSE IF IsStruct(t, i) THEN wrap(buf, Slice(t, start, i + 1))
    ELSE IF IsTag(t, i) THEN wrap(buf, Slice(t, start, i))
    ELSE [buf |-> buf, oob |-> FALSE, shrink |-> TRUE]

\* j := strings.Index(t[i:], ">>")
CloseAt == Index(From(t, i), TagClose)

\* tag := t[i : i+j+2]
Tag == Slice(t, i, i + CloseAt + 2)

AfterTag == i + CloseAt + 2

IsAlias == findAttr(Tag, AttrOriginal) = NameWord

Abort(reason) ==
    /\ pc' = "panic"
    /\ why' = reason
    /\ tagged' = (tagged \/ (i < Len(t) /\ IsTag(t, i)))
    /\ shrunk' = (shrunk /\ Pending.shrink)
    /\ UNCHANGED <<t, i, start, buf, optStart, out, warning, snaps, last>>

\* wrap reads line[j] at a negative j
WrapPanic ==
    /\ pc = "scan"
    /\ Pending.oob
    /\ Abort("wrap: index out of range")

\* a structural token: "((", "||", "))", "//", "??", "__"
Structural ==
    /\ pc = "scan" /\ i < Len(t) /\ IsStruct(t, i)
    /\ ~Pending.oob
    /\ buf' = Pending.buf
    /\ i' = RunEnd(t, i, t[i + 1])
    /\ start' = i'
    /\ shrunk' = (shrunk /\ Pending.shrink)
    /\ last' = Nothing
    /\ UNCHANGED <<t, optStart, pc, out, warning, why, snaps, tagged>>

InTag == pc = "scan" /\ i < Len(t) /\ IsTag(t, i) /\ ~Pending.oob

\* panic("bad template")
TagUnclosed ==
    /\ InTag
    /\ CloseAt < 0
    /\ Abort("bad template")

\* if findAttr(tag, "original") == "name"
NameAlias ==
    /\ InTag
    /\ CloseAt >= 0
    /\ IsAlias
    /\ LET r == wrap(Pending.buf, NameWord)
       IN  IF r.oob THEN Abort("wrap: index out of range")
           ELSE /\ buf' = r.buf
                /\ i' = AfterTag
                /\ start' = AfterTag
                /\ tagged' = TRUE
                /\ shrunk' = (shrunk /\ Pending.shrink /\ r.shrink)
                /\ last' = Nothing
                /\ UNCHANGED <<t, optStart, pc, out, warning, why, snaps>>

\* the tag cases below the name alias
InKind == InTag /\ CloseAt >= 0 /\ ~IsAlias

\* case tag == "<<beginOptional>>"
BeginOptional ==
    /\ InKind
    /\ Tag = TagBegin
    /\ optStart' = Append(optStart, Len(Pending.buf))
    /\ buf' = indentNL(Pending.buf) \o OpenOp \o <<SP>>
    /\ i' = SkipSpaces(t, AfterTag)
    /\ start' = i'
    /\ snaps' = Append(snaps, Pending.buf)
    /\ tagged' = TRUE
    /\ shrunk' = (shrunk /\ Pending.shrink)
    /\ last' = Nothing
    /\ UNCHANGED <<t, pc, out, warning, why>>

\* case tag == "<<endOptional>>"
EndOptional ==
    /\ InKind
    /\ Tag = TagEnd
    /\ optStart # <<>>
    /\ LET st == optStart[Len(optStart)]
           b1 == IF Contains(From(Pending.buf, st), NL)
                 THEN indentNL(Pending.buf)
                 ELSE Pending.buf \o <<SP>>
           b2 == indentNL(b1 \o CloseOp)
           gone == Discard(words(From(b2, st)))
       IN  /\ optStart' = SubSeq(optStart, 1, Len(optStart) - 1)
           /\ buf' = IF gone THEN Slice(b2, 0, st) ELSE b2
           /\ snaps' = SubSeq(snaps, 1, Len(snaps) - 1)
           /\ last' = [op |-> "end", name |-> <<>>, original |-> <<>>,
                       discarded |-> gone, snap |-> snaps[Len(snaps)],
                       written |-> From(b2, st)]
    /\ i' = SkipSpaces(t, AfterTag)
    /\ start' = i'
    /\ tagged' = TRUE
    /\ shrunk' = (shrunk /\ Pending.shrink)
    /\ UNCHANGED <<t, pc, out, warning, why>>

\* optStart[len(optStart)-1] of an empty optStart
EndOptionalEmpty ==
    /\ InKind
    /\ Tag = TagEnd
    /\ optStart = <<>>
    /\ Abort("optStart: index out of range")

\* case strings.HasPrefix(tag, `<<var;`)
Variable ==
    /\ InKind
    /\ Tag \notin {TagBegin, TagEnd}
    /\ HasPrefix(Tag, VarPrefix)
    /\ buf' = VarWrite(Pending.buf, findAttr(Tag, AttrName), findAttr(Tag, AttrOriginal))
    /\ i' = SkipSpaces(t, AfterTag)
    /\ start' = i'
    /\ last' = [op |-> "var", name |-> findAttr(Tag, AttrName),
                original |-> findAttr(Tag, AttrOriginal), discarded |-> FALSE,
                snap |-> <<>>, written |-> <<>>]
    /\ tagged' = TRUE
    /\ shrunk' = (shrunk /\ Pending.shrink)
    /\ UNCHANGED <<t, optStart, pc, out, warning, why, snaps>>

\* default: panic(tag)
UnknownTag ==
    /\ InKind
    /\ Tag \notin {TagBegin, TagEnd}
    /\ ~HasPrefix(Tag, VarPrefix)
    /\ Abort("unknown tag")

\* default: i++
Literal ==
    /\ pc = "scan" /\ i < Len(t) /\ ~IsStruct(t, i) /\ ~IsTag(t, i)
    /\ i' = i + 1
    /\ last' = Nothing
    /\ UNCHANGED <<t, start, buf, optStart, pc, out, warning, why, snaps,
                   tagged, shrunk>>

\* after the loop: the last wrap, the normalization, the return
Finish ==
    /\ pc = "scan" /\ i >= Len(t)
    /\ ~Pending.oob
    /\ buf' = Pending.buf
    /\ out' = Normalize(Pending.buf).out
    /\ warning' = Normalize(Pending.buf).warning
    /\ pc' = "done"
    /\ shrunk' = (shrunk /\ Pending.shrink)
    /\ last' = Nothing
    /\ UNCHANGED <<t, i, start, optStart, why, snaps, tagged>>

Next ==
    \/ WrapPanic
    \/ Structural
    \/ TagUnclosed
    \/ NameAlias
    \/ BeginOptional
    \/ EndOptional
    \/ EndOptionalEmpty
    \/ Variable
    \/ UnknownTag
    \/ Literal
    \/ Finish

Spec == Init /\ [][Next]_vars

------------------------------------------------------------------------------
\* The normalization alone, applied to a body and then to its own result

MaxBody == 4

BodyChars == {"a", ".", SP, NL}

RECURSIVE Bodies(_)
Bodies(n) ==
    IF n = 0 THEN {<<>>}
    ELSE Bodies(n - 1) \cup {b \o <<c>> : b \in Bodies(n - 1), c \in BodyChars}

InitNorm ==
    /\ buf \in Bodies(MaxBody)
    /\ pc = "body"
    /\ t = <<>> /\ i = 0 /\ start = 0 /\ optStart = <<>>
    /\ out = <<>> /\ warning = <<>> /\ why = ""
    /\ snaps = <<>> /\ last = Nothing /\ tagged = FALSE /\ shrunk = TRUE

\* the normalization of the body buf
NormalizeOnce ==
    /\ pc = "body"
    /\ out' = Normalize(buf).out
    /\ warning' = Normalize(buf).warning
    /\ pc' = "once"
    /\ UNCHANGED <<t, i, start, buf, optStart, why, snaps, last, tagged, shrunk>>

\* the normalization of the document the first one returned, which buf keeps
NormalizeAgain ==
    /\ pc = "once"
    /\ buf' = out
    /\ out' = Normalize(out).out
    /\ warning' = Normalize(out).warning
    /\ pc' = "twice"
    /\ UNCHANGED <<t, i, start, optStart, why, snaps, last, tagged, shrunk>>

NextNorm == NormalizeOnce \/ NormalizeAgain

SpecNorm == InitNorm /\ [][NextNorm]_vars

------------------------------------------------------------------------------
\* Properties

\* the lines of s, without their newlines
LinesOf(s) ==
    LET ls == SplitAfter(s)
    IN  [k \in 1..Len(ls) |->
            IF Len(ls[k]) > 0 /\ ls[k][Len(ls[k])] = NL
            THEN SubSeq(ls[k], 1, Len(ls[k]) - 1) ELSE ls[k]]

\* a line within the width, or one token after its indentation
LineFits(line) ==
    \/ Len(line) <= 80
    \/ ~\E k \in (SkipBlank(line, 0) + 1)..Len(line) : line[k] \in Blank

\* C1: no line of the returned document is longer than 80 characters, except a
\* line that holds, after its indentation, a single token without blanks.
C1_NoLongLine ==
    pc = "done" => \A k \in 1..Len(LinesOf(out)) : LineFits(LinesOf(out)[k])

\* The operators (( and ))?? of s read from left to right, from the offset k
\* and the depth given: no close comes before its open, and none is left open.
RECURSIVE Balanced(_, _, _)
Balanced(s, k, depth) ==
    LET ops == {m \in k..Len(s) :
                  \/ HasPrefixAt(s, m, <<"(", "(">>)
                  \/ HasPrefixAt(s, m, <<")", ")", "?", "?">>)}
        m == CHOOSE x \in ops : \A y \in ops : x <= y
    IN  IF ops = {} THEN depth = 0
        ELSE IF HasPrefixAt(s, m, <<"(", "(">>) THEN Balanced(s, m + 2, depth + 1)
        ELSE depth > 0 /\ Balanced(s, m + 4, depth - 1)

\* C2: for a template whose optional blocks are all closed, the (( and ))?? of
\* the returned document are balanced and nested, whatever the literal text and
\* the original of the variables.
C2_OperatorsBalanced == (pc = "done" /\ optStart = <<>>) => Balanced(out, 0, 0)

\* C3: the wildcard written for a variable that is not a bullet is __n__ with
\* n >= 5, and n is the word count of original when that is 5 or more.
C3_WildcardFloor ==
    (last.op = "var" /\ last.name \notin {Bullet, Copyright}) =>
        LET wc == wordCount(last.original)
            written == TrimSpace(buf)
        IN  \E n \in 5..(Len(last.original) + 5) :
                /\ HasSuffix(written, <<"_", "_">> \o Itoa(n) \o <<"_", "_">>)
                /\ (wc >= 5 => n = wc)

\* a variable of one word was given the wildcard __5__
C3_Witness ==
    /\ last.op = "var"
    /\ last.name = <<"x">>
    /\ last.original = <<"W", "o", "r", "l", "d">>
    /\ HasSuffix(TrimSpace(buf), <<"_", "_", "5", "_", "_">>)

\* C4: templateToLRE returns a document only if no optional block is open at
\* the end of the scan.
C4_ReturnsOnlyClosed == pc = "done" => optStart = <<>>

\* the marker as the copyright variable writes it
WrittenMarker == SubSeq(CopyrightLine, 1, Len(CopyrightLine) - 1)

\* C5: when the written copyright marker lies in the first 100 characters of the
\* body after text that is not an optional group, there is a warning and the
\* returned document does not hold that text.
C5_PreambleCut ==
    pc = "done" =>
        LET data == Collapsed(buf)
            k == Index(data, WrittenMarker)
            pre == TrimSpace(Slice(data, 0, k))
        IN  (/\ k >= 0 /\ k < 100
             /\ pre # <<>>
             /\ ~(HasPrefix(pre, <<"(", "(">>) /\ HasSuffix(pre, <<")", ")", "?", "?">>)))
            => (warning # <<>> /\ Index(out, pre) < 0)

StructChars == {"(", ")", "|", "/", "?", "_"}

\* s with each run of one structural character cut to its first character
RunsCut(s) ==
    LET pairs == [k \in 1..Len(s) |-> <<s[k], IF k > 1 THEN s[k - 1] ELSE "">>]
        first(p) == ~(p[1] \in StructChars /\ p[2] = p[1])
        firsts == SelectSeq(pairs, first)
    IN  [k \in 1..Len(firsts) |-> firsts[k][1]]

\* s without the characters of cs
Without(s, cs) ==
    LET other(c) == c \notin cs
    IN  SelectSeq(s, other)

\* what wrapping and normalization may add or drop: blanks, newlines, and the
\* characters of the lines the blank-line collapse drops
Fill == {SP, TAB, NL, ".", ",", "\""}

LiteralOnly(s) == Index(s, <<"<", "<">>) < 0

HasRun(s) == \E k \in 1..(Len(s) - 1) : s[k] \in StructChars /\ s[k + 1] = s[k]

\* C6 as stated: the characters of a template of literal text with a run of a
\* structural character reach the returned document unchanged.
C6_RunsUnchanged ==
    (pc = "done" /\ LiteralOnly(t) /\ HasRun(t)) =>
        Without(out, Fill) = Without(t, Fill)

\* C6 as amended: they reach it with each run cut to one character, and the scan
\* does not enter the tag case.
C6_RunsCollapsed ==
    (pc # "scan" /\ LiteralOnly(t) /\ HasRun(t)) =>
        /\ ~tagged
        /\ pc = "done" => Without(out, Fill) = Without(RunsCut(t), Fill)

\* a template with a run, longer than the width, was returned
C6_Witness ==
    /\ pc = "done" /\ LiteralOnly(t) /\ HasRun(t)
    /\ Len(t) > 80
    /\ Index(out, <<"a", " ", "?", " ", "b">>) >= 0

\* C7: normalizing a normalized document gives the same document.
C7_NormalizeIdempotent == pc = "twice" => out = buf

\* every << of s lies in a run of three or more <
OnlyTriple(s) ==
    /\ Index(s, <<"<", "<">>) >= 0
    /\ \A k \in 0..(Len(s) - 2) :
          HasPrefixAt(s, k, <<"<", "<">>) =>
              \/ HasPrefixAt(s, k, <<"<", "<", "<">>)
              \/ (k >= 1 /\ s[k] = "<")

\* C8: a template whose every << lies in a run of three or more < is scanned
\* without entering the tag case and without a panic.
C8_TripleAngleLiteral == OnlyTriple(t) => (~tagged /\ pc # "panic")

\* C9: a block is discarded exactly when what was written since its offset has
\* no word or the one word s; while a block is open the buffer before its offset
\* is what it was when the offset was recorded; after a discard the buffer is
\* that buffer; a template that is one such block leaves no operator.
C9_DiscardRestoresBuffer ==
    /\ last.op = "end" =>
          /\ last.discarded <=>
                (words(last.written) = <<>> \/ words(last.written) = <<(<<"s">>)>>)
          /\ last.discarded => buf = last.snap
          /\ HasPrefix(buf, last.snap)
    /\ pc = "scan" =>
          \A k \in 1..Len(optStart) :
              /\ optStart[k] <= Len(buf)
              /\ Slice(buf, 0, optStart[k]) = snaps[k]
    /\ (pc = "done" /\ t \in {TagBegin \o c \o TagEnd : c \in {<<>>, <<"s">>, <<".">>}}) =>
          (Index(out, <<"(", "(">>) < 0 /\ Index(out, <<")", ")", "?", "?">>) < 0)

\* a block of more than a line of text was discarded and a buffer restored
C9_Witness ==
    /\ last.op = "end"
    /\ last.discarded
    /\ Len(last.written) > 80
    /\ last.snap # <<>>
    /\ buf = last.snap

\* C10: wrap never reads its line outside its bounds, and every iteration of its
\* loop shortens the line.
C10_WrapTotal == why # "wrap: index out of range" /\ shrunk

====
